---- MODULE Spec2Model ----
(***************************************************************************)
(* Hermes2D DiscreteProblemSelectiveAssembler: reuse of the sparse         *)
(* structure, the symbolic registration pass, the recalculation caches     *)
(* and the form_to_be_assembled predicates.                                *)
(*                                                                         *)
(* C arrays are functions on 0..n-1, a nullable pointer is a record        *)
(* [null, a]; call logs are sequences.  A scaling factor is a decimal      *)
(* [m, e] standing for m * 10^e.                                           *)
(***************************************************************************)
EXTENDS Integers, Sequences, FiniteSets, TLC

\* ------------------------------------------------------------------ bounds
\* number of structural changes of the fields in one run
MaxChanges == 1
\* largest marker universe of the mesh
MaxMarkers == 2

\* number of fields bound at the first set_spaces call
NumFields == 2

Fields == 0 .. (NumFields - 1)

VARIABLES
  \* ---- DiscreteProblemSelectiveAssembler members
  sp_seq, spaces_size,
  mfvol_forms_size, vfvol_forms_size, mfsurf_forms_size, vfsurf_forms_size,
  surface_markers_size, volume_markers_size,
  matrix_structure_reusable, vector_structure_reusable,
  matrix_surface_recalculation, vector_surface_recalculation,
  matrix_surface_forms_recalculation, vector_surface_forms_recalculation,
  matrix_volume_recalculation, vector_volume_recalculation,
  matrix_volume_forms_recalculation, vector_volume_forms_recalculation,
  wf,
  \* ---- collaborators
  spaces,             \* per field: [seq, ndof]
  min_marker_unused,  \* marker universe of the mesh of field 0
  mats, vecs,         \* the matrix and vector targets of the caller
  \* ---- observation
  crashed,            \* the process has aborted inside a call
  call,               \* the last operation and what it did
  since,              \* what happened since the last prepare_sparse_structure
  pred,               \* input and result of a form_to_be_assembled evaluation
  \* ---- the example drivers
  newton              \* the Newton loop of main(): position, it, what it has done

sizeVars == <<mfvol_forms_size, vfvol_forms_size, mfsurf_forms_size, vfsurf_forms_size>>
markerVars == <<surface_markers_size, volume_markers_size>>
flagVars == <<matrix_structure_reusable, vector_structure_reusable>>
surfCacheVars == <<matrix_surface_recalculation, vector_surface_recalculation,
                   matrix_surface_forms_recalculation, vector_surface_forms_recalculation>>
volCacheVars == <<matrix_volume_recalculation, vector_volume_recalculation,
                  matrix_volume_forms_recalculation, vector_volume_forms_recalculation>>
cacheVars == <<surfCacheVars, volCacheVars>>
targetVars == <<mats, vecs>>
vars == <<sp_seq, spaces_size, sizeVars, markerVars, flagVars, cacheVars, wf,
          spaces, min_marker_unused, targetVars, crashed, call, since, pred, newton>>

\* ------------------------------------------------------------ C helpers
Null == [null |-> TRUE, a |-> <<>>]
Arr(s) == [null |-> FALSE, a |-> s]

\* calloc(n, sizeof(bool)): n zeroed flags
CallocBool(n) == Arr([k \in 0 .. (n - 1) |-> FALSE])
\* calloc(n, sizeof(bool*)): n null row pointers
CallocRows(n) == Arr([k \in 0 .. (n - 1) |-> Null])

Abs(x) == IF x < 0 THEN -x ELSE x

RECURSIVE Pow10(_)
Pow10(k) == IF k <= 0 THEN 1 ELSE 10 * Pow10(k - 1)

RECURSIVE Flatten(_)
Flatten(ss) == IF ss = <<>> THEN <<>> ELSE Head(ss) \o Flatten(Tail(ss))

SeqRange(s) == {s[k] : k \in 1 .. Len(s)}

\* a decimal [m, e] is m * 10^e
Dec(m, e) == [m |-> m, e |-> e]

\* fabs(x) < 1e-12
FabsBelowThreshold(x) ==
  IF x.m = 0 THEN TRUE
  ELSE IF x.e >= -12 THEN FALSE
  ELSE IF x.e < -21 THEN TRUE
  ELSE Abs(x.m) < Pow10(-12 - x.e)

\* fabs(x) > 1e-12
FabsAboveThreshold(x) ==
  IF x.m = 0 THEN FALSE
  ELSE IF x.e > -12 THEN TRUE
  ELSE IF x.e < -21 THEN FALSE
  ELSE Abs(x.m) > Pow10(-12 - x.e)

\* --------------------------------------------------- weak-form models
One == Dec(1, 0)
Tiny == Dec(1, -13)

MF(i, j, sc) == [i |-> i, j |-> j, scaling_factor |-> sc]
VF(i, sc) == [i |-> i, j |-> i, scaling_factor |-> sc]

NoForms == [neq |-> NumFields, mfvol |-> <<>>, mfsurf |-> <<>>, mfDG |-> <<>>,
            vfvol |-> <<>>, vfsurf |-> <<>>, vfDG |-> <<>>]

\* the models a caller binds; "NULL" is the unbound pointer
WF(w) ==
  CASE w = "WAll" ->
         [NoForms EXCEPT !.mfvol = <<MF(0, 0, One), MF(0, 1, One), MF(1, 0, One), MF(1, 1, One)>>,
                         !.vfvol = <<VF(0, One), VF(1, One)>>]
    [] w = "WTiny" ->
         [NoForms EXCEPT !.mfvol = <<MF(0, 0, One), MF(0, 1, Tiny), MF(1, 0, One), MF(1, 1, One)>>,
                         !.vfvol = <<VF(0, One), VF(1, One)>>]
    [] w = "WDG" ->
         [NoForms EXCEPT !.mfvol = <<MF(0, 0, One), MF(1, 1, One)>>,
                         !.mfDG = <<MF(0, 1, One), MF(1, 0, One)>>,
                         !.vfvol = <<VF(0, One)>>]
    [] w = "WDG1" ->
         [NoForms EXCEPT !.mfvol = <<MF(0, 0, One), MF(1, 1, One)>>,
                         !.mfDG = <<MF(0, 1, One)>>,
                         !.vfvol = <<VF(0, One)>>]
    [] w = "WDGTiny" ->
         [NoForms EXCEPT !.mfvol = <<MF(0, 0, One), MF(0, 1, Tiny), MF(1, 0, One), MF(1, 1, One)>>,
                         !.mfDG = <<MF(0, 0, One)>>,
                         !.vfvol = <<VF(0, One)>>]
    [] w = "WSurf" ->
         [NoForms EXCEPT !.mfvol = <<MF(0, 0, One)>>,
                         !.mfsurf = <<MF(1, 1, One), MF(1, 0, Dec(-1, 0))>>,
                         !.vfvol = <<VF(0, One)>>,
                         !.vfsurf = <<VF(1, One)>>]
    [] OTHER -> NoForms

StructModels == {"WAll", "WTiny", "WDG", "WDG1", "WDGTiny"}
CacheModels == {"WAll", "WSurf", "WEmpty"}

MatrixForms(w) == WF(w).mfvol \o WF(w).mfsurf \o WF(w).mfDG

\* WeakForm::get_blocks: blocks[m][n] iff some matrix form couples (m, n)
\* with a scaling factor above the threshold
get_blocks(w) ==
  [m \in 0 .. (WF(w).neq - 1) |->
    [n \in 0 .. (WF(w).neq - 1) |->
      \E k \in 1 .. Len(MatrixForms(w)) :
        /\ MatrixForms(w)[k].i = m
        /\ MatrixForms(w)[k].j = n
        /\ FabsAboveThreshold(MatrixForms(w)[k].scaling_factor)]]

\* WeakForm::is_DG: the model contains a DG form
is_DG(w) == WF(w).mfDG # <<>> \/ WF(w).vfDG # <<>>

\* ------------------------------------------------------------- fields
\* dofs of field i before any refinement
BaseDofs(i) == IF i = 0 THEN 3 ELSE 2

\* Space<Scalar>::get_num_dofs(spaces)
RECURSIVE SumDofs(_, _)
SumDofs(sp, n) == IF n = 0 THEN 0 ELSE sp[n - 1].ndof + SumDofs(sp, n - 1)
get_num_dofs(sp) == SumDofs(sp, NumFields)

\* first global dof of field i
Offset(sp, i) == SumDofs(sp, i)

\* a structural change of field i (refinement, dof reassignment)
ChangeSeq(i) ==
  /\ ~crashed
  /\ spaces[0].seq + spaces[1].seq < MaxChanges
  /\ spaces' = [spaces EXCEPT ![i] = [seq |-> @.seq + 1, ndof |-> @.ndof + 1]]
  /\ since' = [since EXCEPT !.seqChanged = (since.prevMat # "none"),
                            !.reboundAfterChange = FALSE]
  /\ call' = [op |-> "ChangeSeq"]
  /\ UNCHANGED <<sp_seq, spaces_size, sizeVars, markerVars, flagVars, cacheVars, wf,
                 min_marker_unused, targetVars, crashed, pred, newton>>

\* the mesh of field 0 gets one more boundary marker
GrowMarkers ==
  /\ ~crashed
  /\ min_marker_unused < MaxMarkers
  /\ min_marker_unused' = min_marker_unused + 1
  /\ call' = [op |-> "GrowMarkers"]
  /\ UNCHANGED <<sp_seq, spaces_size, sizeVars, markerVars, flagVars, cacheVars, wf,
                 spaces, targetVars, crashed, since, pred, newton>>

\* a numeric assembly pass has computed the contributions of one category
\* ("surface" or "volume") on every marker and records them as valid
AllValid(arr) == IF arr.null THEN arr ELSE Arr([k \in DOMAIN arr.a |-> TRUE])
AllRowsValid(rows) ==
  IF rows.null THEN rows ELSE Arr([k \in DOMAIN rows.a |-> AllValid(rows.a[k])])

NumericPass(cat) ==
  /\ ~crashed
  /\ wf # "NULL" /\ spaces_size # 0
  /\ IF cat = "surface"
       THEN /\ matrix_surface_recalculation' = AllValid(matrix_surface_recalculation)
            /\ vector_surface_recalculation' = AllValid(vector_surface_recalculation)
            /\ matrix_surface_forms_recalculation' =
                 AllRowsValid(matrix_surface_forms_recalculation)
            /\ vector_surface_forms_recalculation' =
                 AllRowsValid(vector_surface_forms_recalculation)
            /\ UNCHANGED volCacheVars
       ELSE /\ matrix_volume_recalculation' = AllValid(matrix_volume_recalculation)
            /\ vector_volume_recalculation' = AllValid(vector_volume_recalculation)
            /\ matrix_volume_forms_recalculation' =
                 AllRowsValid(matrix_volume_forms_recalculation)
            /\ vector_volume_forms_recalculation' =
                 AllRowsValid(vector_volume_forms_recalculation)
            /\ UNCHANGED surfCacheVars
  /\ call' = [op |-> "NumericPass", cat |-> cat]
  /\ UNCHANGED <<sp_seq, spaces_size, sizeVars, markerVars, flagVars, wf,
                 spaces, min_marker_unused, targetVars, crashed, since, pred, newton>>

\* the values of the flags of a per-marker array and of a (marker, form) array
FlagsOf(arr) == IF arr.null THEN {} ELSE {arr.a[k] : k \in DOMAIN arr.a}
RowFlagsOf(rows) ==
  IF rows.null THEN {} ELSE UNION {FlagsOf(rows.a[k]) : k \in DOMAIN rows.a}

SurfaceFlags ==
  FlagsOf(matrix_surface_recalculation) \cup FlagsOf(vector_surface_recalculation)
  \cup RowFlagsOf(matrix_surface_forms_recalculation)
  \cup RowFlagsOf(vector_surface_forms_recalculation)

VolumeFlags ==
  FlagsOf(matrix_volume_recalculation) \cup FlagsOf(vector_volume_recalculation)
  \cup RowFlagsOf(matrix_volume_forms_recalculation)
  \cup RowFlagsOf(vector_volume_forms_recalculation)

\* ---------------------------------------------------------- set_spaces
\* lines 250-258, 296-304: a per-marker array is freed and replaced by a
\* zeroed array of n flags
ReallocFlags_KeepOld(old, n) ==
  Arr([k \in 0 .. (n - 1) |->
         IF ~old.null /\ k \in DOMAIN old.a THEN old.a[k] ELSE FALSE])
ReallocFlags(old, n) == CallocBool(n)

\* the rows of a freshly allocated (marker, form) array
NewFormRows(markers, forms_size) ==
  IF forms_size > 0
    THEN Arr([k \in 0 .. (markers - 1) |-> CallocBool(forms_size)])
    ELSE CallocRows(markers)

\* lines 233-241: some field's sequence number differs from the last-seen one
SeqMismatch_First(sp, seen, n) == n > 0 /\ sp[0].seq # seen[0]
SeqMismatch(sp, seen, n) == \E i \in 0 .. (n - 1) : sp[i].seq # seen[i]

\* What spacesToSet[i] of line 235 yields for i beyond the end of a vector
\* that has fewer entries than the recorded field count: the read is out of
\* bounds; the process dies on it or get_seq() returns some value.
NoOverrun == [crash |-> FALSE, seq |-> 0]
OverrunOutcomes == {[crash |-> TRUE, seq |-> 0], NoOverrun, [crash |-> FALSE, seq |-> 7]}

\* the fields the loop of lines 233-243 reads out of a vector of n entries
FieldsRead(n, over) ==
  [i \in 0 .. (spaces_size - 1) |-> IF i < n THEN spaces[i] ELSE [seq |-> over.seq, ndof |-> 0]]

\* set_spaces called with a vector of n fields.  The first binding of a run
\* passes NumFields fields.  The code has no statement that reports an
\* error: call.error records that none was reported.
set_spaces_call(n, over) ==
  /\ ~crashed
  /\ sp_seq.null => n = NumFields
  /\ (sp_seq.null \/ n >= spaces_size) => over = NoOverrun
  /\ IF sp_seq.null
       THEN /\ spaces_size' = n
            /\ sp_seq' = Arr([i \in 0 .. (n - 1) |-> -1])
            /\ UNCHANGED flagVars
       ELSE /\ sp_seq' = Arr([i \in 0 .. (spaces_size - 1) |-> FieldsRead(n, over)[i].seq])
            /\ IF SeqMismatch(FieldsRead(n, over), sp_seq.a, spaces_size)
                 THEN /\ matrix_structure_reusable' = FALSE
                      /\ vector_structure_reusable' = FALSE
                 ELSE UNCHANGED flagVars
            /\ UNCHANGED spaces_size
  /\ IF min_marker_unused # surface_markers_size
       THEN /\ surface_markers_size' = min_marker_unused
            /\ matrix_surface_recalculation' =
                 ReallocFlags(matrix_surface_recalculation, min_marker_unused)
            /\ vector_surface_recalculation' =
                 ReallocFlags(vector_surface_recalculation, min_marker_unused)
            /\ matrix_surface_forms_recalculation' = NewFormRows(min_marker_unused, mfsurf_forms_size)
            /\ vector_surface_forms_recalculation' = NewFormRows(min_marker_unused, vfsurf_forms_size)
       ELSE UNCHANGED <<surface_markers_size, surfCacheVars>>
  /\ IF min_marker_unused # volume_markers_size
       THEN /\ volume_markers_size' = min_marker_unused
            /\ matrix_volume_recalculation' =
                 ReallocFlags(matrix_volume_recalculation, min_marker_unused)
            /\ vector_volume_recalculation' =
                 ReallocFlags(vector_volume_recalculation, min_marker_unused)
            /\ matrix_volume_forms_recalculation' = NewFormRows(min_marker_unused, mfvol_forms_size)
            /\ vector_volume_forms_recalculation' = NewFormRows(min_marker_unused, vfvol_forms_size)
       ELSE UNCHANGED <<volume_markers_size, volCacheVars>>
  /\ since' = [since EXCEPT !.rebound = TRUE,
                            !.reboundAfterChange = since.seqChanged /\ ~sp_seq.null]
  /\ call' = [op |-> "set_spaces", first |-> sp_seq.null,
              k0s |-> surface_markers_size, k0v |-> volume_markers_size,
              valid0s |-> (TRUE \in SurfaceFlags), valid0v |-> (TRUE \in VolumeFlags),
              passed |-> n, recorded |-> IF sp_seq.null THEN n ELSE spaces_size,
              error |-> FALSE, returned |-> ~over.crash]
  /\ crashed' = over.crash
  /\ UNCHANGED <<sizeVars, wf, spaces, min_marker_unused, targetVars, pred, newton>>

\* set_spaces called with the fields of the run
set_spaces == set_spaces_call(NumFields, NoOverrun)

\* ------------------------------------------------ set_weak_formulation
\* the rows of a (marker, form) array after the form count became n
ResizeRows(rows, markers, n) ==
  IF markers = 0 THEN rows
  ELSE Arr([k \in 0 .. (markers - 1) |-> CallocBool(n)])

\* lines 344-345: a StructureReusableFlag after model w replaced model old
Invalidate_IfNew(flag, w, old) == IF w = old THEN flag ELSE FALSE
Invalidate(flag, w, old) == FALSE

\* line 347: no field is bound yet
NoFieldSetBound_Never(n) == FALSE
NoFieldSetBound(n) == n = 0

set_weak_formulation(w) ==
  /\ ~crashed
  /\ wf' = w
  /\ matrix_structure_reusable' = Invalidate(matrix_structure_reusable, w, wf)
  /\ vector_structure_reusable' = Invalidate(vector_structure_reusable, w, wf)
  /\ IF NoFieldSetBound(spaces_size)
       THEN UNCHANGED <<sizeVars, cacheVars>>
       ELSE /\ IF Len(WF(w).mfvol) # mfvol_forms_size
                 THEN /\ mfvol_forms_size' = Len(WF(w).mfvol)
                      /\ matrix_volume_forms_recalculation' =
                           ResizeRows(matrix_volume_forms_recalculation,
                                      volume_markers_size, Len(WF(w).mfvol))
                 ELSE UNCHANGED <<mfvol_forms_size, matrix_volume_forms_recalculation>>
            /\ IF Len(WF(w).vfvol) # vfvol_forms_size
                 THEN /\ vfvol_forms_size' = Len(WF(w).vfvol)
                      /\ vector_volume_forms_recalculation' =
                           ResizeRows(vector_volume_forms_recalculation,
                                      volume_markers_size, Len(WF(w).vfvol))
                 ELSE UNCHANGED <<vfvol_forms_size, vector_volume_forms_recalculation>>
            /\ IF Len(WF(w).mfsurf) # mfsurf_forms_size
                 THEN /\ mfsurf_forms_size' = Len(WF(w).mfsurf)
                      /\ matrix_surface_forms_recalculation' =
                           ResizeRows(matrix_surface_forms_recalculation,
                                      surface_markers_size, Len(WF(w).mfsurf))
                 ELSE UNCHANGED <<mfsurf_forms_size, matrix_surface_forms_recalculation>>
            /\ IF Len(WF(w).vfsurf) # vfsurf_forms_size
                 THEN /\ vfsurf_forms_size' = Len(WF(w).vfsurf)
                      /\ vector_surface_forms_recalculation' =
                           ResizeRows(vector_surface_forms_recalculation,
                                      surface_markers_size, Len(WF(w).vfsurf))
                 ELSE UNCHANGED <<vfsurf_forms_size, vector_surface_forms_recalculation>>
            /\ UNCHANGED <<matrix_surface_recalculation, vector_surface_recalculation,
                           matrix_volume_recalculation, vector_volume_recalculation>>
  /\ since' = [since EXCEPT !.wfCalled = TRUE,
                            !.wfChanged = since.wfChanged \/ w # wf]
  /\ call' = [op |-> "set_weak_formulation", w |-> w, same |-> (w = wf),
              bound |-> (spaces_size # 0),
              mflag0 |-> matrix_structure_reusable,
              vflag0 |-> vector_structure_reusable]
  /\ UNCHANGED <<sp_seq, spaces_size, markerVars, spaces, min_marker_unused,
                 targetVars, crashed, pred, newton>>

\* ------------------------------------------- elements and traversal states
\* neighbor lists of an element with three edges
Nb3(a, b, c) == [ed \in 0 .. 2 |-> IF ed = 0 THEN a ELSE IF ed = 1 THEN b ELSE c]

\* the elements of the meshes: number of edges, local dofs (-1: eliminated
\* by a boundary condition), neighbors across each edge
Elem(x) ==
  CASE x = "A0" -> [nvert |-> 3, dofs |-> <<0, 1, 2>>, nb |-> Nb3(<<"A1">>, <<>>, <<>>)]
    [] x = "A1" -> [nvert |-> 3, dofs |-> <<-1, 2>>, nb |-> Nb3(<<"A0">>, <<>>, <<>>)]
    [] x = "A2" -> [nvert |-> 3, dofs |-> <<1>>, nb |-> Nb3(<<>>, <<>>, <<>>)]
    [] x = "A3" -> [nvert |-> 3, dofs |-> <<0, 2>>, nb |-> Nb3(<<>>, <<>>, <<"A2", "A1">>)]
    [] x = "B0" -> [nvert |-> 3, dofs |-> <<0, 1>>, nb |-> Nb3(<<>>, <<"B1">>, <<>>)]
    [] x = "B1" -> [nvert |-> 3, dofs |-> <<1, -1>>, nb |-> Nb3(<<>>, <<"B0">>, <<>>)]
    [] OTHER -> [nvert |-> 3, dofs |-> <<0>>, nb |-> Nb3(<<>>, <<>>, <<>>)]

\* Traverse::State: one element slot per field, "NULL" when the field has
\* no element on the patch
St(a, b) == [e |-> [i \in Fields |-> IF i = 0 THEN a ELSE b]]

T1 == St("A0", "B0")
T2 == St("A1", "B1")
T3 == St("A0", "NULL")
T4 == St("NULL", "B0")
T5 == St("A2", "B2")
\* an element with two neighbors across one edge (a hanging node)
T6 == St("A3", "B2")

\* the state arrays a caller passes
StateLists == {<<T1>>, <<T2>>, <<T1, T2>>, <<T3, T2>>, <<T5>>, <<T4>>, <<T6>>}

\* Space::get_element_assembly_list: the global dofs of an element of field i
get_element_assembly_list(sp, i, x) ==
  [k \in 1 .. Len(Elem(x).dofs) |->
     IF Elem(x).dofs[k] < 0 THEN -1 ELSE Offset(sp, i) + Elem(x).dofs[k]]

\* the field a global dof belongs to
FieldOf(sp, d) == IF d < Offset(sp, 1) THEN 0 ELSE 1

\* ------------------------------------------------------ matrix and vector
Mats == {"M1"}
Vecs == {"V1"}

NewMat == [size |-> 0, pre |-> {}, pattern |-> {}, allocated |-> FALSE]
NewVec == [len |-> 0]

MatFree(mt) == NewMat
MatPrealloc(mt, n) == [mt EXCEPT !.size = n, !.pre = {}]
MatPreAdd(mt, coords) == [mt EXCEPT !.pre = @ \cup SeqRange(coords)]
MatAlloc(mt) == [mt EXCEPT !.pattern = mt.pre, !.pre = {}, !.allocated = TRUE]
VecAlloc(v, n) == [v EXCEPT !.len = n]

\* ------------------------------------------------- the registration pass
\* lines 194-200 and 146-156: the coordinates of the non-eliminated dofs of
\* am against those of an, forward when fwd, transposed when bwd
PairCalls_NoColumnTest(am, an, fwd, bwd) ==
  Flatten([i \in 1 .. Len(am) |->
    IF am[i] >= 0
      THEN Flatten([j \in 1 .. Len(an) |->
             (IF fwd THEN <<<<am[i], an[j]>>>> ELSE <<>>)
             \o (IF bwd THEN <<<<an[j], am[i]>>>> ELSE <<>>)])
      ELSE <<>>])
PairCalls(am, an, fwd, bwd) ==
  Flatten([i \in 1 .. Len(am) |->
    IF am[i] >= 0
      THEN Flatten([j \in 1 .. Len(an) |->
             IF an[j] >= 0
               THEN (IF fwd THEN <<<<am[i], an[j]>>>> ELSE <<>>)
                    \o (IF bwd THEN <<<<an[j], am[i]>>>> ELSE <<>>)
               ELSE <<>>])
      ELSE <<>>])

\* lines 183-203: local coupling of the blocks of one state
LocalCalls(st, al, blocks, ss) ==
  Flatten([mm \in 1 .. ss |->
    Flatten([nn \in 1 .. ss |->
      IF blocks[mm - 1][nn - 1] /\ st.e[mm - 1] # "NULL" /\ st.e[nn - 1] # "NULL"
        THEN PairCalls(al[mm - 1], al[nn - 1], TRUE, FALSE)
        ELSE <<>>])])

\* ---- the DG branch, lines 94-181
\* ns.get_num_neighbors() of element slot el across edge ed
NeighborCount(st, el, ed) == Len(Elem(st.e[el]).nb[ed])

\* the (field, edge) pairs of a state that have a neighbor
EdgesWithNeighbor(st, ss, ne) ==
  {p \in (0 .. (ss - 1)) \X (0 .. (ne - 1)) : NeighborCount(st, p[1], p[2]) > 0}

\* the first of them in the order of the loops of lines 132-134
FirstEdge(st, ss, ne) ==
  CHOOSE p \in EdgesWithNeighbor(st, ss, ne) :
    \A q \in EdgesWithNeighbor(st, ss, ne) :
      p[1] < q[1] \/ (p[1] = q[1] /\ p[2] <= q[2])

\* lines 130-161 run as written, every read returning the value stored
\* before the arrays were deleted
DGCalls(st, al, blocks, sp, ss, ne) ==
  Flatten([mm \in 1 .. ss |->
    Flatten([el \in 1 .. ss |->
      Flatten([ed \in 1 .. ne |->
        Flatten([neigh \in 1 .. NeighborCount(st, el - 1, ed - 1) |->
          IF (blocks[mm - 1][el - 1] \/ blocks[el - 1][mm - 1]) /\ st.e[mm - 1] # "NULL"
            THEN PairCalls(al[mm - 1],
                           get_element_assembly_list(sp, el - 1,
                              Elem(st.e[el - 1]).nb[ed - 1][neigh]),
                           blocks[mm - 1][el - 1], blocks[el - 1][mm - 1])
            ELSE <<>>])])])])

\* the non-eliminated dofs of a list, in order
Live(am) == SelectSeq(am, LAMBDA d : d >= 0)

\* The first execution of the body of the neighbor loop (m = 0, the first
\* edge with a neighbor, neigh = 0) up to the "delete an" of line 157:
\* whether an was deleted there, the own dof of that iteration and the
\* calls made before the delete.
FirstBody(st, al, blocks, sp, ss, ne) ==
  LET p == FirstEdge(st, ss, ne)
      el == p[1]
      an == get_element_assembly_list(sp, el, Elem(st.e[el]).nb[p[2]][1])
      am == Live(al[0])
      taken == (blocks[0][el] \/ blocks[el][0]) /\ st.e[0] # "NULL"
      deleted == taken /\ am # <<>> /\ an # <<>>
  IN [deleted |-> deleted,
      el |-> el,
      d |-> IF deleted THEN am[1] ELSE -1,
      reg |-> IF deleted /\ an[1] >= 0
                THEN (IF blocks[0][el] THEN <<<<am[1], an[1]>>>> ELSE <<>>)
                     \o (IF blocks[el][0] THEN <<<<an[1], am[1]>>>> ELSE <<>>)
                ELSE <<>>]

\* values a read of deleted memory returns
GarbageDofs == {1, 4}

\* What the build does once deleted memory is read and deleted again
\* (line 136 after lines 165-176, line 150 after line 157):
\*   abort   - the allocator detects the double delete and aborts;
\*   stale   - the deleted memory still holds its values, the loops run on;
\*   garbage - the j = 1 iteration of line 150 reads g for an->dof[1] at the
\*             test of line 152 and at line 154, and g2 at line 155 after the
\*             first pre_add_ij call; the counts then read 0.
UBOutcomes ==
  {[kind |-> "abort", g |-> 0, g2 |-> 0], [kind |-> "stale", g |-> 0, g2 |-> 0]}
  \cup {[kind |-> "garbage", g |-> x, g2 |-> y] : x \in GarbageDofs, y \in GarbageDofs \cup {-1}}

GarbageCalls(fb, blocks, ub) ==
  IF fb.deleted
    THEN (IF blocks[0][fb.el] THEN <<<<fb.d, ub.g>>>> ELSE <<>>)
         \o (IF blocks[fb.el][0] THEN <<<<ub.g2, fb.d>>>> ELSE <<>>)
    ELSE <<>>

\* the DG branch for one state: the pre_add_ij calls, whether the process
\* died, and how the undefined behaviour (if any) turned out
DGPass_BoundaryIsError(st, al, blocks, sp, ss, ub) ==
  IF st.e[0] = "NULL"
    THEN [crash |-> TRUE, reg |-> <<>>, ub |-> "none", why |-> "e[0] is NULL"]
  ELSE IF \E el \in 0 .. (ss - 1) : st.e[el] = "NULL"
    THEN [crash |-> TRUE, reg |-> <<>>, ub |-> "none", why |-> "NeighborSearch on NULL"]
  ELSE IF \E el \in 0 .. (ss - 1) : \E ed \in 0 .. (Elem(st.e[0]).nvert - 1) :
            NeighborCount(st, el, ed) = 0
    THEN [crash |-> TRUE, reg |-> <<>>, ub |-> "none", why |-> "edge without neighbor"]
  ELSE IF EdgesWithNeighbor(st, ss, Elem(st.e[0]).nvert) = {}
    THEN [crash |-> FALSE, reg |-> <<>>, ub |-> "none", why |-> ""]
  ELSE LET ne == Elem(st.e[0]).nvert
           fb == FirstBody(st, al, blocks, sp, ss, ne)
       IN CASE ub.kind = "abort" ->
                 [crash |-> TRUE, reg |-> fb.reg, ub |-> "abort", why |-> "double delete"]
            [] ub.kind = "stale" ->
                 [crash |-> FALSE, reg |-> DGCalls(st, al, blocks, sp, ss, ne),
                  ub |-> "stale", why |-> ""]
            [] OTHER ->
                 [crash |-> FALSE, reg |-> fb.reg \o GarbageCalls(fb, blocks, ub),
                  ub |-> "garbage", why |-> ""]
DGPass(st, al, blocks, sp, ss, ub) ==
  IF st.e[0] = "NULL"
    THEN [crash |-> TRUE, reg |-> <<>>, ub |-> "none", why |-> "e[0] is NULL"]
  ELSE IF \E el \in 0 .. (ss - 1) : st.e[el] = "NULL"
    THEN [crash |-> TRUE, reg |-> <<>>, ub |-> "none", why |-> "NeighborSearch on NULL"]
  ELSE IF EdgesWithNeighbor(st, ss, Elem(st.e[0]).nvert) = {}
    THEN [crash |-> FALSE, reg |-> <<>>, ub |-> "none", why |-> ""]
  ELSE LET ne == Elem(st.e[0]).nvert
           fb == FirstBody(st, al, blocks, sp, ss, ne)
       IN CASE ub.kind = "abort" ->
                 [crash |-> TRUE, reg |-> fb.reg, ub |-> "abort", why |-> "double delete"]
            [] ub.kind = "stale" ->
                 [crash |-> FALSE, reg |-> DGCalls(st, al, blocks, sp, ss, ne),
                  ub |-> "stale", why |-> ""]
            [] OTHER ->
                 [crash |-> FALSE, reg |-> fb.reg \o GarbageCalls(fb, blocks, ub),
                  ub |-> "garbage", why |-> ""]

\* lines 73-76: the matrix flag after a call
MatrixFlagAfter_Kept(mre, mat) == mre
MatrixFlagAfter(mre, mat) == mre \/ mat # "NULL"

\* lines 214-216: the vector flag after a call; crash: the call died before
VectorFlagAfter_Kept(vre, rhs, crash) == vre
VectorFlagAfter(vre, rhs, crash) == vre \/ (rhs # "NULL" /\ ~crash)

NoRebuild == [crash |-> FALSE, why |-> "", ub |-> "none", reg |-> <<>>]

\* lines 90-92: the assembly lists after a state was entered; a list of an
\* absent field keeps what the previous state left in it
StateLists1(st, al, sp, ss) ==
  [i \in 0 .. (ss - 1) |->
     IF st.e[i] # "NULL" THEN get_element_assembly_list(sp, i, st.e[i]) ELSE al[i]]

\* lines 84-204: the loop over the states from state k on.  acc.reg holds,
\* per state, the pre_add_ij calls in the order they were made.
RECURSIVE StatesLoop(_, _, _, _, _, _, _, _, _)
StatesLoop(sts, k, al, blocks, dg, sp, ss, ub, acc) ==
  IF k > Len(sts) THEN acc
  ELSE LET st == sts[k]
           al1 == StateLists1(st, al, sp, ss)
           d == IF dg THEN DGPass(st, al1, blocks, sp, ss, ub)
                ELSE [crash |-> FALSE, reg |-> <<>>, ub |-> "none", why |-> ""]
           ubNow == IF d.ub # "none" THEN d.ub ELSE acc.ub
       IN IF d.crash
            THEN [acc EXCEPT !.crash = TRUE, !.why = d.why, !.ub = ubNow,
                             !.reg = Append(@, d.reg)]
            ELSE StatesLoop(sts, k + 1, al1, blocks, dg, sp, ss, ub,
                   [acc EXCEPT !.ub = ubNow,
                               !.reg = Append(@, d.reg \o LocalCalls(st, al1, blocks, ss))])

\* lines 80-209 after free() and prealloc()
Rebuild(w, sts, sp, ss, ub) ==
  IF w = "NULL"
    THEN [crash |-> TRUE, why |-> "wf is NULL", ub |-> "none", reg |-> <<>>]
    ELSE StatesLoop(sts, 1, [i \in 0 .. (ss - 1) |-> <<>>], get_blocks(w), is_DG(w), sp, ss, ub,
                    NoRebuild)

\* The values the fields can take in a run and the table of Rebuild over
\* them, computed once.
SpacesOfRun ==
  {[i \in Fields |-> [seq |-> c[i], ndof |-> BaseDofs(i) + c[i]]] :
     c \in {x \in [Fields -> 0 .. MaxChanges] : x[0] + x[1] <= MaxChanges}}
Tabulated(f) == f @@ <<>>
RebuildTable ==
  Tabulated([w \in StructModels |->
    Tabulated([sts \in StateLists |->
      Tabulated([sp \in SpacesOfRun |->
        Tabulated([ss \in {0, NumFields} |->
          Tabulated([ub \in UBOutcomes |-> Rebuild(w, sts, sp, ss, ub)])])])])])

\* ------------------------------------------- prepare_sparse_structure
\* An entry of the log of the calls made on a target.  The pre_add_ij
\* calls of a pass are one entry that counts them; call.reg lists them.
Z3(name) == <<name, 0, 0>>
PreAddLog(coords) == <<<<"pre_add_ij", Len(coords), 0>>>>

\* lines 77-78, 84-204 and 209: the calls a rebuild makes on the matrix,
\* up to the point where the process died when it did
RebuildCalls_AllocFirst(ndof, coords, crash) ==
  <<Z3("free"), <<"prealloc", ndof, 0>>>>
  \o (IF crash THEN <<>> ELSE <<Z3("alloc")>>) \o PreAddLog(coords)
RebuildCalls(ndof, coords, crash) ==
  <<Z3("free"), <<"prealloc", ndof, 0>>>> \o PreAddLog(coords)
  \o (IF crash THEN <<>> ELSE <<Z3("alloc")>>)

\* call.states and call.reg are the states the pass went through and the
\* (row, column) arguments of the pre_add_ij calls it made for each of them,
\* in the order of the calls.
\* The call with a field vector that holds `more` fields after the fields
\* of the run (0: the vector of the run).  Line 58 counts the dofs of the
\* whole vector; every loop runs over the recorded spaces_size fields.  The
\* code has no statement that reports an error: call.error records that
\* none was reported.
prepare_sparse_structure_call(more, mat, rhs, sts, ub) ==
  \E ndof \in {get_num_dofs(spaces) + more * BaseDofs(NumFields)} :
  \E rb \in {IF ~matrix_structure_reusable /\ mat # "NULL"
               THEN (IF wf = "NULL" THEN Rebuild(wf, sts, spaces, spaces_size, ub)
                     ELSE RebuildTable[wf][sts][spaces][spaces_size][ub])
               ELSE NoRebuild} :
  \E coords \in {Flatten(rb.reg)} :
  LET mre == matrix_structure_reusable
      vre == vector_structure_reusable
      rebuild == ~mre /\ mat # "NULL"
      vrealloc == ~rb.crash /\ ~vre /\ rhs # "NULL"
      matlog == IF mre /\ mat # "NULL" THEN <<Z3("zero")>>
                ELSE IF rebuild THEN RebuildCalls(ndof, coords, rb.crash)
                ELSE <<>>
      veclog == (IF vre /\ rhs # "NULL"
                   THEN (IF vecs[rhs].len = 0 THEN <<<<"alloc", ndof, 0>>>> ELSE <<Z3("zero")>>)
                   ELSE <<>>)
                \o (IF vrealloc THEN <<<<"alloc", ndof, 0>>>> ELSE <<>>)
  IN /\ ~crashed
     /\ matrix_structure_reusable' = MatrixFlagAfter(mre, mat)
     /\ vector_structure_reusable' = VectorFlagAfter(vre, rhs, rb.crash)
     /\ mats' = IF ~rebuild THEN mats
                ELSE [mats EXCEPT ![mat] =
                        IF rb.crash
                          THEN MatPreAdd(MatPrealloc(MatFree(@), ndof), coords)
                          ELSE MatAlloc(MatPreAdd(MatPrealloc(MatFree(@), ndof), coords))]
     /\ vecs' = IF rhs # "NULL" /\ \E k \in 1 .. Len(veclog) : veclog[k][1] = "alloc"
                  THEN [vecs EXCEPT ![rhs] = VecAlloc(@, ndof)]
                  ELSE vecs
     /\ crashed' = rb.crash
     /\ call' = [op |-> "prepare_sparse_structure", mat |-> mat, rhs |-> rhs,
                 states |-> IF rebuild /\ wf # "NULL" THEN sts ELSE <<>>,
                 ndof |-> ndof, mflag0 |-> mre, vflag0 |-> vre, wf |-> wf,
                 matlog |-> matlog, veclog |-> veclog, reg |-> rb.reg,
                 returned |-> ~rb.crash, why |-> rb.why, ub |-> rb.ub,
                 afterWf |-> since.wfCalled, afterRebind |-> since.reboundAfterChange,
                 passed |-> NumFields + more, recorded |-> spaces_size, error |-> FALSE]
     /\ since' = [seqChanged |-> FALSE, rebound |-> FALSE, reboundAfterChange |-> FALSE,
                  wfCalled |-> FALSE, wfChanged |-> FALSE, prevMat |-> mat]
     /\ UNCHANGED <<sp_seq, spaces_size, sizeVars, markerVars, cacheVars, wf,
                    spaces, min_marker_unused, pred, newton>>

\* the call with the fields of the run
prepare_sparse_structure(mat, rhs, sts, ub) ==
  prepare_sparse_structure_call(0, mat, rhs, sts, ub)

\* ------------------------------------------------ form_to_be_assembled
\* Element::marker, and the markers of the edge nodes en[0], en[1], en[2]
Marker(x) == IF x = "A0" THEN 1 ELSE 0
EdgeMarkers(x) == IF x = "A0" THEN <<0, 1, 2>> ELSE <<2, 0, 0>>

\* a traversal state with its representative element (the first present
\* one) and its active edge
SurfState(a, b, isurf) ==
  [e |-> St(a, b).e, rep |-> IF a # "NULL" THEN a ELSE b, isurf |-> isurf]

\* current_state->rep->en[current_state->isurf]->marker
ActiveEdgeMarker(st) == EdgeMarkers(st.rep)[st.isurf + 1]

\* a form of the given class
Form(kind, i, j, sc, everywhere, areas) ==
  [kind |-> kind, i |-> i, j |-> j, scaling_factor |-> sc,
   assembleEverywhere |-> everywhere, areas_internal |-> areas]

\* block_weights->get_A(i, j)
get_A(bw, i, j) == bw.a[i][j]

\* lines 395-411
form_to_be_assembled_MatrixForm_Strict(form, st, bw) ==
  IF st.e[form.i] # "NULL" /\ st.e[form.j] # "NULL"
    THEN IF ~FabsAboveThreshold(form.scaling_factor) THEN FALSE
         ELSE IF ~bw.null /\ ~FabsAboveThreshold(get_A(bw, form.i, form.j)) THEN FALSE
         ELSE TRUE
    ELSE FALSE
form_to_be_assembled_MatrixForm(form, st, bw) ==
  IF st.e[form.i] # "NULL" /\ st.e[form.j] # "NULL"
    THEN IF FabsBelowThreshold(form.scaling_factor) THEN FALSE
         ELSE IF ~bw.null /\ FabsBelowThreshold(get_A(bw, form.i, form.j)) THEN FALSE
         ELSE TRUE
    ELSE FALSE

\* lines 423-427, 443-447, 477-481, 497-501: the marker is listed
AreaListed(form, marker) ==
  \E k \in 1 .. Len(form.areas_internal) : form.areas_internal[k] = marker

\* lines 413-428
form_to_be_assembled_MatrixFormVol(form, st, bw) ==
  IF ~form_to_be_assembled_MatrixForm(form, st, bw) THEN FALSE
  ELSE IF form.assembleEverywhere THEN TRUE
  ELSE AreaListed(form, Marker(st.rep))

\* lines 430-448
form_to_be_assembled_MatrixFormSurf_NoZeroTest(form, st, bw) ==
  IF ~form_to_be_assembled_MatrixForm(form, st, bw) THEN FALSE
  ELSE IF form.assembleEverywhere THEN TRUE
  ELSE AreaListed(form, ActiveEdgeMarker(st))
form_to_be_assembled_MatrixFormSurf(form, st, bw) ==
  IF ~form_to_be_assembled_MatrixForm(form, st, bw) THEN FALSE
  ELSE IF ActiveEdgeMarker(st) = 0 THEN FALSE
  ELSE IF form.assembleEverywhere THEN TRUE
  ELSE AreaListed(form, ActiveEdgeMarker(st))

\* lines 450-454
form_to_be_assembled_MatrixFormDG(form, st, bw) ==
  form_to_be_assembled_MatrixForm(form, st, bw)

\* lines 456-465
form_to_be_assembled_VectorForm_Strict(form, st) ==
  IF st.e[form.i] = "NULL" THEN FALSE
  ELSE IF ~FabsAboveThreshold(form.scaling_factor) THEN FALSE
  ELSE TRUE
form_to_be_assembled_VectorForm(form, st) ==
  IF st.e[form.i] = "NULL" THEN FALSE
  ELSE IF FabsBelowThreshold(form.scaling_factor) THEN FALSE
  ELSE TRUE

\* lines 467-482
form_to_be_assembled_VectorFormVol(form, st) ==
  IF ~form_to_be_assembled_VectorForm(form, st) THEN FALSE
  ELSE IF form.assembleEverywhere THEN TRUE
  ELSE AreaListed(form, Marker(st.rep))

\* lines 484-502
form_to_be_assembled_VectorFormSurf(form, st) ==
  IF ~form_to_be_assembled_VectorForm(form, st) THEN FALSE
  ELSE IF ActiveEdgeMarker(st) = 0 THEN FALSE
  ELSE IF form.assembleEverywhere THEN TRUE
  ELSE AreaListed(form, ActiveEdgeMarker(st))

\* lines 504-508
form_to_be_assembled_VectorFormDG(form, st) ==
  form_to_be_assembled_VectorForm(form, st)

\* the overload the compiler selects for the class of the form
Overload(form, st, bw) ==
  CASE form.kind = "MatrixForm" -> form_to_be_assembled_MatrixForm(form, st, bw)
    [] form.kind = "MatrixFormVol" -> form_to_be_assembled_MatrixFormVol(form, st, bw)
    [] form.kind = "MatrixFormSurf" -> form_to_be_assembled_MatrixFormSurf(form, st, bw)
    [] form.kind = "MatrixFormDG" -> form_to_be_assembled_MatrixFormDG(form, st, bw)
    [] form.kind = "VectorForm" -> form_to_be_assembled_VectorForm(form, st)
    [] form.kind = "VectorFormVol" -> form_to_be_assembled_VectorFormVol(form, st)
    [] form.kind = "VectorFormSurf" -> form_to_be_assembled_VectorFormSurf(form, st)
    [] OTHER -> form_to_be_assembled_VectorFormDG(form, st)

\* one evaluation of the predicate on the form, state and block weights
\* held in pred
form_to_be_assembled ==
  /\ pred.phase = "input"
  /\ pred' = [pred EXCEPT !.phase = "done",
                          !.result = Overload(pred.form, pred.state, pred.block_weights)]
  /\ call' = [op |-> "form_to_be_assembled"]
  /\ UNCHANGED <<sp_seq, spaces_size, sizeVars, markerVars, flagVars, cacheVars, wf,
                 spaces, min_marker_unused, targetVars, crashed, since, newton>>

\* ---- the inputs of the evaluations
MatrixKinds == {"MatrixForm", "MatrixFormVol", "MatrixFormSurf", "MatrixFormDG"}
VectorKinds == {"VectorForm", "VectorFormVol", "VectorFormSurf", "VectorFormDG"}
Threshold == Dec(1, -12)
Scalings == {One, Tiny, Threshold, Dec(-1, 0)}
AreaLists == {<<>>, <<0>>, <<1>>, <<0, 2>>}

PredForms ==
  {Form(k, i, j, sc, ev, ar) :
     k \in MatrixKinds, i \in Fields, j \in Fields, sc \in Scalings,
     ev \in BOOLEAN, ar \in AreaLists}
  \cup {Form(k, i, i, sc, ev, ar) :
     k \in VectorKinds, i \in Fields, sc \in Scalings, ev \in BOOLEAN, ar \in AreaLists}

PredStates ==
  {SurfState(x[1], x[2], isurf) :
     x \in {<<"A0", "B0">>, <<"A0", "NULL">>, <<"NULL", "B0">>}, isurf \in 0 .. 2}

\* no table, a table of ones, a table whose (0, 1) weight is zero and whose
\* (1, 0) weight is the threshold
PredWeights ==
  {Null,
   Arr([i \in Fields |-> [j \in Fields |-> One]]),
   Arr([i \in Fields |-> [j \in Fields |->
          IF i < j THEN Dec(0, 0) ELSE IF i > j THEN Threshold ELSE One]])}

PredInputs ==
  {[phase |-> "input", form |-> f, state |-> st, block_weights |-> bw, result |-> FALSE] :
     f \in PredForms, st \in PredStates, bw \in PredWeights}

\* ------------------------------------------- the Newton loop of main()
\* system_exp/main.cpp lines 82-121; system_neutronics_fixedsrc/main.cpp
\* lines 93-132 are the same statements.
NEWTON_MAX_ITER == 150

\* the variables of the assembler, which the drivers' loop does not touch
assemblerVars ==
  <<sp_seq, spaces_size, sizeVars, markerVars, flagVars, cacheVars, wf,
    spaces, min_marker_unused, targetVars, crashed, call, since, pred>>

\* no driver is running
NoNewton == [pc |-> "idle"]

\* line 82: the loop is entered with it = 1; the counters observe what the
\* loop has done, in all and in the current iteration
NewtonStart ==
  [pc |-> "assemble", it |-> 1, small |-> FALSE, first_small |-> FALSE,
   solve_ok |-> TRUE, msg |-> "",
   assemblies |-> 0, solves |-> 0, coeff_updates |-> 0, space_updates |-> 0,
   it_assemblies |-> 0, it_solves |-> 0]

\* error(): reports the message and ends the process
error(n, msg) == [n EXCEPT !.pc = "fatal", !.msg = msg]

\* line 101: the test that leaves the loop
Converged_AnyIteration(small, it) == small
Converged(small, it) == small /\ it > 1

\* line 108: the solver reported a failure
SolveFailed(ok) == ~ok

\* line 115: the iteration limit is reached
LimitReached_OffByOne(it) == it > NEWTON_MAX_ITER
LimitReached(it) == it >= NEWTON_MAX_ITER

\* lines 85-95: dp->assemble(matrix, rhs) and the residual norm of rhs;
\* small: res_norm_squared < NEWTON_TOL * NEWTON_TOL
Assemble ==
  /\ newton.pc = "assemble"
  /\ \E small \in BOOLEAN :
       newton' = [newton EXCEPT !.pc = "test", !.small = small,
                                !.first_small = IF newton.it = 1 THEN small ELSE @,
                                !.assemblies = @ + 1, !.it_assemblies = @ + 1]
  /\ UNCHANGED assemblerVars

\* lines 101-105: break on convergence, else negate rhs
TestResidual ==
  /\ newton.pc = "test"
  /\ newton' = IF Converged(newton.small, newton.it)
                 THEN [newton EXCEPT !.pc = "done"]
                 ELSE [newton EXCEPT !.pc = "solve"]
  /\ UNCHANGED assemblerVars

\* lines 108-109: solver->solve(), fatal when it fails
Solve ==
  /\ newton.pc = "solve"
  /\ \E ok \in BOOLEAN :
       newton' = IF SolveFailed(ok)
                   THEN error([newton EXCEPT !.solves = @ + 1, !.it_solves = @ + 1,
                                             !.solve_ok = ok],
                              "Matrix solver failed.")
                   ELSE [newton EXCEPT !.pc = "add", !.solves = @ + 1,
                                       !.it_solves = @ + 1, !.solve_ok = ok]
  /\ UNCHANGED assemblerVars

\* line 112: coeff_vec += solution
AddUpdate ==
  /\ newton.pc = "add"
  /\ newton' = [newton EXCEPT !.pc = "limit", !.coeff_updates = @ + 1]
  /\ UNCHANGED assemblerVars

\* line 115: fatal when the iteration limit is reached
CheckLimit ==
  /\ newton.pc = "limit"
  /\ newton' = IF LimitReached(newton.it)
                 THEN error(newton, "Newton method did not converge.")
                 ELSE [newton EXCEPT !.pc = "copy"]
  /\ UNCHANGED assemblerVars

\* lines 118-120: vector_to_solution(coeff_vec, space); it++
CopyToSpace ==
  /\ newton.pc = "copy"
  /\ newton' = [newton EXCEPT !.pc = "assemble", !.it = @ + 1,
                              !.space_updates = @ + 1,
                              !.it_assemblies = 0, !.it_solves = 0]
  /\ UNCHANGED assemblerVars

\* ------------------------------------------------------- specification
NoPred == [phase |-> "idle"]

InitAssembler ==
  /\ sp_seq = Null
  /\ spaces_size = 0
  /\ mfvol_forms_size = 0 /\ vfvol_forms_size = 0
  /\ mfsurf_forms_size = 0 /\ vfsurf_forms_size = 0
  /\ surface_markers_size = 0 /\ volume_markers_size = 0
  /\ matrix_structure_reusable = FALSE
  /\ vector_structure_reusable = FALSE
  /\ matrix_surface_recalculation = Null /\ vector_surface_recalculation = Null
  /\ matrix_surface_forms_recalculation = Null /\ vector_surface_forms_recalculation = Null
  /\ matrix_volume_recalculation = Null /\ vector_volume_recalculation = Null
  /\ matrix_volume_forms_recalculation = Null /\ vector_volume_forms_recalculation = Null
  /\ wf = "NULL"
  /\ spaces = [i \in Fields |-> [seq |-> 0, ndof |-> BaseDofs(i)]]
  /\ min_marker_unused = 1
  /\ mats = [x \in Mats |-> NewMat]
  /\ vecs = [x \in Vecs |-> NewVec]
  /\ crashed = FALSE
  /\ call = [op |-> "none"]
  /\ since = [seqChanged |-> FALSE, rebound |-> FALSE, reboundAfterChange |-> FALSE,
              wfCalled |-> FALSE, wfChanged |-> FALSE, prevMat |-> "none"]

Init == InitAssembler /\ pred = NoPred /\ newton = NoNewton

\* a call with targets, states and an outcome of the undefined behaviour
\* drawn from the given sets
Prepare(targets, rhss, lists, outcomes) ==
  \E mat \in targets, rhs \in rhss, sts \in lists, ub \in outcomes :
    prepare_sparse_structure(mat, rhs, sts, ub)

\* the outcomes that do not register values read from deleted memory
SomeOutcomes == {ub \in UBOutcomes : ub.kind # "garbage"}

\* Spec: the life of an assembler, with refinement of the fields, rebinding
\* and repeated structural passes over null and non-null targets.
Next ==
  \/ set_spaces
  \/ \E w \in {"WAll", "WDG"} : set_weak_formulation(w)
  \/ Prepare({"M1", "NULL"}, {"V1", "NULL"}, {<<T1>>, <<T5>>}, SomeOutcomes)
  \/ \E i \in Fields : ChangeSeq(i)

Spec == Init /\ [][Next]_vars

\* SpecReg: structural passes of every model over every state array, with
\* every outcome of the undefined behaviour of the DG branch.
NextReg ==
  \/ set_spaces
  \/ \E w \in StructModels : set_weak_formulation(w)
  \/ Prepare({"M1"}, {"V1"}, StateLists, UBOutcomes)

SpecReg == Init /\ [][NextReg]_vars

\* SpecCfg: calls that pass a field vector of another size than the one
\* recorded at the first binding.
NextCfg ==
  \/ \E n \in 1 .. (NumFields + 1) : \E over \in OverrunOutcomes : set_spaces_call(n, over)
  \/ \E w \in {"WAll", "WDG1"} : set_weak_formulation(w)
  \/ \E more \in {0, 1} : \E sts \in {<<T1>>, <<T5>>} :
       prepare_sparse_structure_call(more, "M1", "V1", sts, [kind |-> "stale", g |-> 0, g2 |-> 0])

SpecCfg == Init /\ [][NextCfg]_vars

\* SpecCache: the recalculation caches under rebinding of fields and models,
\* growth of the marker universe and numeric passes that validate entries.
NextCache ==
  \/ set_spaces
  \/ \E w \in CacheModels : set_weak_formulation(w)
  \/ GrowMarkers
  \/ \E cat \in {"surface", "volume"} : NumericPass(cat)

SpecCache == Init /\ [][NextCache]_vars

\* SpecPred: one evaluation of form_to_be_assembled on every form, state
\* and block-weight table of the input sets.
InitPred == InitAssembler /\ pred \in PredInputs /\ newton = NoNewton

NextPred == form_to_be_assembled

SpecPred == InitPred /\ [][NextPred]_vars

\* SpecNewton: the Newton loop of the example drivers, with every residual
\* norm and every result of solve() the collaborators can return.
InitNewton == InitAssembler /\ pred = NoPred /\ newton = NewtonStart

NextNewton ==
  \/ Assemble
  \/ TestResidual
  \/ Solve
  \/ AddUpdate
  \/ CheckLimit
  \/ CopyToSpace

SpecNewton == InitNewton /\ [][NextNewton]_vars

\* the loop runs on as long as a statement is left to execute
SpecNewtonFair == SpecNewton /\ WF_vars(NextNewton)

\* ============================================================ properties
IsPrepare == call.op = "prepare_sparse_structure"

\* the matrix calls of c are those of a structural rebuild: free(),
\* prealloc(ndof), the pre_add_ij pass over the states, and alloc() last
\* when the call returned
RebuildLog(c) ==
  /\ Len(c.matlog) >= 2
  /\ c.matlog[1] = Z3("free")
  /\ c.matlog[2] = <<"prealloc", c.ndof, 0>>
  /\ c.matlog = <<Z3("free"), <<"prealloc", c.ndof, 0>>>> \o PreAddLog(Flatten(c.reg))
                \o (IF c.returned THEN <<Z3("alloc")>> ELSE <<>>)
  /\ c.returned => Len(c.reg) = Len(c.states)

\* the vector calls of c are one alloc(ndof)
VectorRealloc(c) == c.veclog = <<<<"alloc", c.ndof, 0>>>>

C3_Original ==
  (IsPrepare /\ call.returned)
    => (matrix_structure_reusable /\ vector_structure_reusable)

\* C3 amended: after every call that returns, the flag of every non-null
\* target is true and the flag of a null target has the value it had on
\* entry; a flag that was false on entry and whose target is non-null has
\* caused a full rebuild of that target.
C3_FlagsAfterCall ==
  (IsPrepare /\ call.returned)
    => (/\ call.mat # "NULL" => matrix_structure_reusable
        /\ call.rhs # "NULL" => vector_structure_reusable
        /\ call.mat = "NULL" => matrix_structure_reusable = call.mflag0
        /\ call.rhs = "NULL" => vector_structure_reusable = call.vflag0
        /\ (call.mat # "NULL" /\ ~call.mflag0) => RebuildLog(call)
        /\ (call.rhs # "NULL" /\ ~call.vflag0) => VectorRealloc(call))

\* a returned call that found both flags false and rebuilt both targets
C3_Witness ==
  /\ IsPrepare /\ call.returned
  /\ ~call.mflag0 /\ ~call.vflag0
  /\ call.mat # "NULL" /\ call.rhs # "NULL"
  /\ matrix_structure_reusable /\ vector_structure_reusable
  /\ mats[call.mat].allocated

\* ---- C4
\* C4: after every set_weak_formulation call both flags are false, also
\* when the model bound is the one that was bound before; the next
\* prepare_sparse_structure call with non-null targets finds them false and
\* rebuilds the matrix and reallocates the vector instead of re-zeroing.
C4_WeakFormInvalidates ==
  /\ call.op = "set_weak_formulation"
       => (~matrix_structure_reusable /\ ~vector_structure_reusable)
  /\ (IsPrepare /\ call.afterWf /\ call.mat # "NULL" /\ call.rhs # "NULL")
       => (/\ ~call.mflag0 /\ ~call.vflag0
           /\ RebuildLog(call)
           /\ call.returned => VectorRealloc(call))

\* a rebuild of both targets by the first call after a rebinding of the model
C4_Witness ==
  /\ IsPrepare /\ call.returned /\ call.afterWf
  /\ since.prevMat \in Mats
  /\ call.mat # "NULL" /\ call.rhs # "NULL"
  /\ RebuildLog(call) /\ VectorRealloc(call)
  /\ call.matlog[3] = <<"pre_add_ij", 25, 0>>

\* ---- the registrations of a rebuild
\* a rebuild that entered the loop over the states
Rebuilt == IsPrepare /\ call.states # <<>>

\* the fields the assembler recorded
BoundFields == 0 .. (spaces_size - 1)

\* the pre_add_ij calls made for state k (none when the process died before)
RegAt(k) == IF k <= Len(call.reg) THEN call.reg[k] ELSE <<>>

\* the non-eliminated global dofs of field i on the element of st
LiveDofs(st, i) ==
  {d \in SeqRange(get_element_assembly_list(spaces, i, st.e[i])) : d >= 0}

\* the coordinates of block (m, n) on st: every pair of non-eliminated dofs
BlockCoords(st, m, n) ==
  IF st.e[m] # "NULL" /\ st.e[n] # "NULL"
    THEN LiveDofs(st, m) \X LiveDofs(st, n)
    ELSE {}

\* coordinate c lies in block (m, n) of the matrix
InBlock(c, m, n) ==
  /\ c[1] >= 0 /\ c[2] >= 0
  /\ FieldOf(spaces, c[1]) = m /\ FieldOf(spaces, c[2]) = n

FormsOf(w, m, n) ==
  {k \in 1 .. Len(MatrixForms(w)) : MatrixForms(w)[k].i = m /\ MatrixForms(w)[k].j = n}

\* block (m, n) has matrix forms, all of them with |scaling_factor| < 1e-12
OnlyBelowThreshold(w, m, n) ==
  /\ FormsOf(w, m, n) # {}
  /\ \A k \in FormsOf(w, m, n) : FabsBelowThreshold(MatrixForms(w)[k].scaling_factor)

\* block (m, n) has a matrix form with scaling 1.0
HasUnitForm(w, m, n) ==
  \E k \in FormsOf(w, m, n) : MatrixForms(w)[k].scaling_factor = One

\* ---- C5
\* C5: in a structural rebuild, for every state, a block (m, n) whose only
\* matrix forms have |scaling_factor| < 1e-12 gets no coordinate registered,
\* and the block (n, m), when it has a form with scaling 1.0, gets every
\* coordinate of its non-eliminated dofs registered by a rebuild that
\* returns.
C5_ThresholdLaw ==
  Rebuilt =>
    \A k \in 1 .. Len(call.states) : \A m \in BoundFields : \A n \in BoundFields :
      OnlyBelowThreshold(call.wf, m, n) =>
        /\ \A c \in SeqRange(RegAt(k)) : ~InBlock(c, m, n)
        /\ (call.returned /\ HasUnitForm(call.wf, n, m)) =>
             BlockCoords(call.states[k], n, m) \subseteq SeqRange(RegAt(k))

\* ---- C6
\* the coordinates the local coupling of a state has to register
LocalCoords(w, st) ==
  UNION {BlockCoords(st, p[1], p[2]) :
           p \in {q \in BoundFields \X BoundFields : get_blocks(w)[q[1]][q[2]]}}

\* C6: in a rebuild with no DG form, the pre_add_ij calls of each state are
\* exactly one call (d_m, d_n) for every pair of fields (m, n) with
\* blocks[m][n] true and both elements present and every pair of
\* non-eliminated global dofs d_m of field m and d_n of field n.
C6_LocalRegistration ==
  (Rebuilt /\ ~is_DG(call.wf)) =>
    /\ call.returned
    /\ \A k \in 1 .. Len(call.states) :
         /\ SeqRange(call.reg[k]) = LocalCoords(call.wf, call.states[k])
         /\ Len(call.reg[k]) = Cardinality(LocalCoords(call.wf, call.states[k]))

\* two fields, an all-true mask, 3 and 2 non-eliminated dofs: 25 calls
C6_Witness ==
  /\ Rebuilt /\ ~is_DG(call.wf)
  /\ spaces_size = 2
  /\ \A m \in Fields : \A n \in Fields : get_blocks(call.wf)[m][n]
  /\ call.states = <<T1>>
  /\ Cardinality(LiveDofs(T1, 0)) = 3 /\ Cardinality(LiveDofs(T1, 1)) = 2
  /\ Len(call.reg[1]) = 9 + 4 + 6 + 6

\* a rebuild without DG forms over a state with eliminated dofs
C6_WitnessEliminated ==
  /\ Rebuilt /\ ~is_DG(call.wf)
  /\ spaces_size = 2
  /\ call.states = <<T1, T2>>
  /\ Len(call.reg[2]) = 4

\* ---- C7
\* C7: after a structural rebuild, for all fields m, n with blocks[m][n] and
\* blocks[n][m] both true, every coordinate registered in block (m, n) has
\* its inverse registered as well, in the local path and in the DG path.
C7_Symmetry ==
  (Rebuilt /\ call.returned) =>
    \A m \in BoundFields : \A n \in BoundFields :
      (get_blocks(call.wf)[m][n] /\ get_blocks(call.wf)[n][m]) =>
        \A c \in SeqRange(Flatten(call.reg)) :
          InBlock(c, m, n) => <<c[2], c[1]>> \in SeqRange(Flatten(call.reg))

\* ---- C8
\* C8: every pre_add_ij(row, col) call of prepare_sparse_structure has
\* row >= 0 and col >= 0, in the local path and in the DG path.
C8_NoEliminatedDof ==
  IsPrepare =>
    \A c \in SeqRange(Flatten(call.reg)) : c[1] >= 0 /\ c[2] >= 0

\* ---- C9
\* a finished evaluation of a surface form on a state whose active edge
\* has marker 0
SurfOnMarkerZero ==
  /\ pred.phase = "done"
  /\ pred.form.kind \in {"MatrixFormSurf", "VectorFormSurf"}
  /\ ActiveEdgeMarker(pred.state) = 0

\* C9: form_to_be_assembled for a MatrixFormSurf or a VectorFormSurf returns
\* false for every state whose active edge has marker 0, whatever the
\* form's assembleEverywhere, areas and scaling factor are.
C9_MarkerZero == SurfOnMarkerZero => pred.result = FALSE

\* a matrix surface form marked assembleEverywhere that lists marker 0,
\* with a scaling factor above the threshold and both elements present,
\* evaluated on an edge with marker 0
C9_Witness ==
  /\ SurfOnMarkerZero
  /\ pred.form.kind = "MatrixFormSurf"
  /\ pred.form.assembleEverywhere
  /\ AreaListed(pred.form, 0)
  /\ pred.form.scaling_factor = One
  /\ form_to_be_assembled_MatrixForm(pred.form, pred.state, pred.block_weights)
  /\ pred.result = FALSE

\* ---- C10
\* a per-marker array has n flags, all false
FreshFlags(arr, n) ==
  /\ ~arr.null
  /\ DOMAIN arr.a = 0 .. (n - 1)
  /\ \A k \in 0 .. (n - 1) : arr.a[k] = FALSE

\* a (marker, form) array has n rows, each one null (no form of the
\* category) or a row of false flags, one per form
FreshRows(rows, n, forms_size) ==
  /\ ~rows.null
  /\ DOMAIN rows.a = 0 .. (n - 1)
  /\ \A k \in 0 .. (n - 1) :
       IF forms_size > 0 THEN FreshFlags(rows.a[k], forms_size) ELSE rows.a[k].null

\* C10: when set_spaces sees the marker universe grow from K to K' > K,
\* every per-marker flag and every (marker, form) flag of the markers
\* K..K'-1 is false afterwards and no flag of the markers below K keeps a
\* value of the old arrays: all K' entries are freshly zeroed.
C10_ResizeSafety ==
  (call.op = "set_spaces") =>
    /\ (call.k0s < surface_markers_size) =>
         /\ FreshFlags(matrix_surface_recalculation, surface_markers_size)
         /\ FreshFlags(vector_surface_recalculation, surface_markers_size)
         /\ FreshRows(matrix_surface_forms_recalculation, surface_markers_size,
                      mfsurf_forms_size)
         /\ FreshRows(vector_surface_forms_recalculation, surface_markers_size,
                      vfsurf_forms_size)
    /\ (call.k0v < volume_markers_size) =>
         /\ FreshFlags(matrix_volume_recalculation, volume_markers_size)
         /\ FreshFlags(vector_volume_recalculation, volume_markers_size)
         /\ FreshRows(matrix_volume_forms_recalculation, volume_markers_size,
                      mfvol_forms_size)
         /\ FreshRows(vector_volume_forms_recalculation, volume_markers_size,
                      vfvol_forms_size)

\* set_spaces saw the universe grow from K >= 1 while flags of the old
\* surface and volume arrays were valid, with forms of every category bound
C10_Witness ==
  /\ call.op = "set_spaces"
  /\ call.k0s >= 1 /\ call.k0s < surface_markers_size
  /\ call.k0v >= 1 /\ call.k0v < volume_markers_size
  /\ call.valid0s /\ call.valid0v
  /\ mfsurf_forms_size > 0 /\ vfsurf_forms_size > 0
  /\ mfvol_forms_size > 0 /\ vfvol_forms_size > 0
  /\ TRUE \notin SurfaceFlags \cup VolumeFlags

\* ---- C11
\* a call of set_spaces or prepare_sparse_structure that got a field vector
\* whose size differs from the recorded field count
ConfigurationMismatch ==
  /\ call.op \in {"set_spaces", "prepare_sparse_structure"}
  /\ call.recorded # 0
  /\ call.passed # call.recorded

\* C11: a set_spaces or prepare_sparse_structure call with a field vector
\* whose size differs from the recorded field count reports an error.
C11_MismatchFailsFast == ConfigurationMismatch => call.error

\* ---- C12
\* the non-eliminated global dofs of element x of field i
LiveDofsOf(i, x) ==
  {d \in SeqRange(get_element_assembly_list(spaces, i, x)) : d >= 0}

\* the neighbors of the element of field el of st across edge ed
NeighborsOf(st, el, ed) == SeqRange(Elem(st.e[el]).nb[ed])

\* the (m, el, edge, neighbor) combinations of a state the DG loop has to
\* visit: block (m, el) or (el, m) coupled, both fields present
DGVisits(w, st) ==
  {v \in BoundFields \X BoundFields \X (0 .. 2) \X {"A0", "A1", "A2", "A3", "B0", "B1"} :
     /\ st.e[v[1]] # "NULL" /\ st.e[v[2]] # "NULL"
     /\ get_blocks(w)[v[1]][v[2]] \/ get_blocks(w)[v[2]][v[1]]
     /\ v[3] < Elem(st.e[v[2]]).nvert
     /\ v[4] \in NeighborsOf(st, v[2], v[3])}

\* the coordinates the DG loop of a state has to register as the code
\* selects them: (d, d') when blocks[m][el], (d', d) when blocks[el][m]
DGCoords(w, st) ==
  UNION {(IF get_blocks(w)[v[1]][v[2]]
            THEN {<<d, dn>> : d \in LiveDofs(st, v[1]), dn \in LiveDofsOf(v[2], v[4])}
            ELSE {})
         \cup
         (IF get_blocks(w)[v[2]][v[1]]
            THEN {<<dn, d>> : d \in LiveDofs(st, v[1]), dn \in LiveDofsOf(v[2], v[4])}
            ELSE {}) :
         v \in DGVisits(w, st)}

\* C12: in the DG branch every neighbor of every edge of every field is
\* visited and registered, and no neighbor array, count array or neighbor
\* assembly list is read after it was freed.
C12_DGNeighborsComplete ==
  (Rebuilt /\ is_DG(call.wf)) =>
    /\ call.ub = "none"
    /\ \A k \in 1 .. Len(call.states) :
         DGCoords(call.wf, call.states[k]) \subseteq SeqRange(RegAt(k))

\* ---- C13
\* st has an element of field 0 (read at line 97) and of every bound field
AllPresent(st) == st.e[0] # "NULL" /\ \A i \in BoundFields : st.e[i] # "NULL"

\* the (field, edge) pairs of st in the order of the loops of lines 132-134
\* and those of them without a neighbor
EdgePairs(st) == BoundFields \X (0 .. (Elem(st.e[0]).nvert - 1))
BoundaryEdges(st) == {p \in EdgePairs(st) : NeighborsOf(st, p[1], p[2]) = {}}
Before(p, q) == p[1] < q[1] \/ (p[1] = q[1] /\ p[2] < q[2])

\* the registrations of the first neighbor pair of the first edge that has
\* a neighbor, when that edge comes after a boundary edge and the first
\* dofs of both lists are not eliminated
AfterBoundaryCoords(w, st) ==
  LET inner == EdgePairs(st) \ BoundaryEdges(st)
      first == CHOOSE p \in inner : \A q \in inner : p = q \/ Before(p, q)
      own == get_element_assembly_list(spaces, 0, st.e[0])
      nbr == get_element_assembly_list(spaces, first[1],
                                       Elem(st.e[first[1]]).nb[first[2]][1])
  IN IF inner = {} \/ ~\E b \in BoundaryEdges(st) : Before(b, first) THEN {}
     ELSE IF own[1] < 0 \/ nbr[1] < 0 THEN {}
     ELSE (IF get_blocks(w)[0][first[1]] THEN {<<own[1], nbr[1]>>} ELSE {})
          \cup (IF get_blocks(w)[first[1]][0] THEN {<<nbr[1], own[1]>>} ELSE {})

\* C13: in the DG branch an edge without a neighbor is not an error and
\* registers nothing: a state whose edges all lack a neighbor gets exactly
\* its local-coupling calls and the rebuild goes past it; the edges after
\* a boundary edge are visited; a rebuild that returns ends with alloc().
C13_BoundaryEdgeIgnored ==
  (Rebuilt /\ is_DG(call.wf)) =>
    /\ \A k \in 1 .. Len(call.reg) :
         AllPresent(call.states[k]) =>
           /\ (BoundaryEdges(call.states[k]) = EdgePairs(call.states[k])) =>
                /\ call.returned \/ k < Len(call.reg)
                /\ SeqRange(call.reg[k]) = LocalCoords(call.wf, call.states[k])
                /\ Len(call.reg[k]) = Cardinality(LocalCoords(call.wf, call.states[k]))
           /\ AfterBoundaryCoords(call.wf, call.states[k]) \subseteq SeqRange(call.reg[k])
    /\ (\A k \in 1 .. Len(call.states) :
          /\ AllPresent(call.states[k])
          /\ BoundaryEdges(call.states[k]) = EdgePairs(call.states[k]))
         => call.returned
    /\ call.returned => call.matlog[Len(call.matlog)] = Z3("alloc")

\* a DG rebuild over a state whose edges are all boundary edges
C13_Witness ==
  /\ Rebuilt /\ is_DG(call.wf)
  /\ call.states = <<T5>>
  /\ BoundaryEdges(T5) = EdgePairs(T5) /\ BoundaryEdges(T5) # {}
  /\ call.reg[1] # <<>>
  /\ call.returned

\* a DG rebuild whose first edge with a neighbor comes after boundary edges
C13_WitnessPastBoundary ==
  /\ Rebuilt /\ is_DG(call.wf)
  /\ call.states = <<T6>>
  /\ AfterBoundaryCoords(call.wf, T6) # {}
  /\ ~call.returned

\* ---- C14
\* the names of the calls of a log, in order
CallNames(log) == [k \in 1 .. Len(log) |-> log[k][1]]

\* entry i of the log is a pre_add_ij pass that follows free() and
\* prealloc() of the same log with no alloc() in between
Preallocated(log, i) ==
  \E j \in 2 .. (i - 1) :
    /\ log[j - 1][1] = "free" /\ log[j][1] = "prealloc"
    /\ \A x \in (j + 1) .. (i - 1) : log[x][1] # "alloc"

\* C14: a rebuilding call issues free(), prealloc(ndof), the pre_add_ij
\* calls and then alloc(), once and last; no call issues pre_add_ij on a
\* matrix (whose pattern an earlier call may have committed) without a
\* free() and a prealloc() before it and after the last alloc().
C14_TwoPhase ==
  (IsPrepare /\ call.mat # "NULL") =>
    /\ ~call.mflag0 =>
         /\ Len(call.matlog) >= 3
         /\ SubSeq(CallNames(call.matlog), 1, 3) = <<"free", "prealloc", "pre_add_ij">>
         /\ call.matlog[2][2] = call.ndof
         /\ call.matlog[3][2] = Len(Flatten(call.reg))
         /\ call.returned => CallNames(call.matlog) =
                                <<"free", "prealloc", "pre_add_ij", "alloc">>
         /\ ~call.returned => Len(call.matlog) = 3
    /\ \A i \in 1 .. Len(call.matlog) :
         call.matlog[i][1] = "pre_add_ij" => Preallocated(call.matlog, i)
    /\ call.mflag0 => Flatten(call.reg) = <<>>

\* a rebuild of a matrix whose pattern an earlier call had committed
C14_Witness ==
  /\ IsPrepare /\ call.mat \in Mats
  /\ ~call.mflag0 /\ call.returned
  /\ since.prevMat = call.mat
  /\ call.afterWf
  /\ call.matlog[3][2] > 0
  /\ mats[call.mat].allocated

\* ---- C15
\* C15: a set_spaces call on fields whose sequence numbers have not changed
\* since the last structural build (the second binding included) leaves
\* both flags true, a call after a change clears them, and after every
\* binding the last-seen value of each field is its current sequence number.
C15_SeqTracking ==
  [][call'.op = "set_spaces" =>
       /\ (/\ ~since.seqChanged
           /\ matrix_structure_reusable /\ vector_structure_reusable)
          => (matrix_structure_reusable' /\ vector_structure_reusable')
       /\ (since.seqChanged /\ since.prevMat # "none")
          => (~matrix_structure_reusable' /\ ~vector_structure_reusable')
       /\ \A i \in 0 .. (spaces_size' - 1) : sp_seq'.a[i] = spaces[i].seq]_vars

\* ---- C16
\* the number of entries of a row of a (marker, form) array
RowLen(row) == IF row.null THEN 0 ELSE Cardinality(DOMAIN row.a)

\* a (marker, form) array has one row per marker and one entry per form
Sized(rows, markers, forms) ==
  /\ ~rows.null
  /\ DOMAIN rows.a = 0 .. (markers - 1)
  /\ \A k \in 0 .. (markers - 1) : RowLen(rows.a[k]) = forms

\* C16: after every set_spaces or set_weak_formulation call, once fields
\* and a model are both bound, the recorded form counts are the model's
\* and each (marker, form) cache has one row per recorded marker with one
\* entry per form of its category in the bound model.
C16_CacheSizes ==
  (/\ call.op \in {"set_spaces", "set_weak_formulation"}
   /\ ~sp_seq.null /\ wf # "NULL")
  => /\ mfvol_forms_size = Len(WF(wf).mfvol)
     /\ vfvol_forms_size = Len(WF(wf).vfvol)
     /\ mfsurf_forms_size = Len(WF(wf).mfsurf)
     /\ vfsurf_forms_size = Len(WF(wf).vfsurf)
     /\ Sized(matrix_volume_forms_recalculation, volume_markers_size, Len(WF(wf).mfvol))
     /\ Sized(vector_volume_forms_recalculation, volume_markers_size, Len(WF(wf).vfvol))
     /\ Sized(matrix_surface_forms_recalculation, surface_markers_size, Len(WF(wf).mfsurf))
     /\ Sized(vector_surface_forms_recalculation, surface_markers_size, Len(WF(wf).vfsurf))

\* ---- C17
\* C17 as stated: a set_weak_formulation call while no field is bound
\* leaves the recorded form counts, the caches and both flags as they were.
C17_Original ==
  [][(call'.op = "set_weak_formulation" /\ spaces_size = 0)
     => UNCHANGED <<sizeVars, cacheVars, flagVars>>]_vars

\* C17 amended: such a call leaves the recorded form counts and the caches
\* as they were, and both flags are false after it.
C17_UnboundFrame ==
  [][(call'.op = "set_weak_formulation" /\ spaces_size = 0)
     => (/\ UNCHANGED <<sizeVars, cacheVars>>
         /\ ~matrix_structure_reusable'
         /\ ~vector_structure_reusable')]_vars

\* a model with forms bound on an assembler without fields whose flags a
\* structural build had set
C17_Witness ==
  /\ call.op = "set_weak_formulation" /\ ~call.bound
  /\ call.mflag0 /\ call.vflag0
  /\ Len(WF(wf).mfvol) > 0
  /\ mfvol_forms_size = 0
  /\ matrix_volume_forms_recalculation.null
  /\ ~matrix_structure_reusable /\ ~vector_structure_reusable

\* ---- C18
\* the pairs (own dof of field m, neighbor dof of field n) of a state for
\* the blocks (m, n) a form couples, field m present
DGPairs(w, st) ==
  UNION {LiveDofs(st, v[1]) \X LiveDofsOf(v[2], v[4]) :
         v \in {x \in DGVisits(w, st) : get_blocks(w)[x[1]][x[2]]}}

\* C18: a rebuild with a DG form registers, for every state, block (m, n),
\* edge and neighbor of field n, every pair (d, d') of a non-eliminated own
\* dof of field m and a non-eliminated neighbor dof of field n, and its
\* transpose (d', d), whether or not block (n, m) is coupled.
C18_DGRegistration ==
  (Rebuilt /\ is_DG(call.wf) /\ call.returned) =>
    \A k \in 1 .. Len(call.states) :
      \A p \in DGPairs(call.wf, call.states[k]) :
        /\ p \in SeqRange(RegAt(k))
        /\ <<p[2], p[1]>> \in SeqRange(RegAt(k))

\* ---- C19
\* a finished evaluation of the overload of the forms of class kind
Evaluated(kind) == pred.phase = "done" /\ pred.form.kind = kind

\* the state of the evaluation has elements of both fields of the form
BothPresent ==
  pred.state.e[pred.form.i] # "NULL" /\ pred.state.e[pred.form.j] # "NULL"

\* the weight of the form's block in the supplied table
BlockWeight == get_A(pred.block_weights, pred.form.i, pred.form.j)

\* C19 as stated: the generic MatrixForm predicate returns true only if
\* both elements are present, |scaling_factor| > 1e-12 and, with a table,
\* |A(i,j)| > 1e-12: a value equal to the threshold is not eligible.
C19_Original ==
  (Evaluated("MatrixForm") /\ pred.result) =>
    /\ BothPresent
    /\ FabsAboveThreshold(pred.form.scaling_factor)
    /\ ~pred.block_weights.null => FabsAboveThreshold(BlockWeight)

\* C19 amended: it returns true only if both elements are present and
\* neither |scaling_factor| nor, with a table, |A(i,j)| is below 1e-12; a
\* scaling factor or a weight equal to the threshold is eligible.
C19_MatrixFormEligible ==
  Evaluated("MatrixForm") =>
    /\ pred.result =>
         /\ BothPresent
         /\ ~FabsBelowThreshold(pred.form.scaling_factor)
         /\ ~pred.block_weights.null => ~FabsBelowThreshold(BlockWeight)
    /\ (/\ BothPresent
        /\ pred.form.scaling_factor = Threshold
        /\ pred.block_weights.null \/ BlockWeight \in {Threshold, One})
       => pred.result

\* a form on block (1, 0) whose scaling factor and block weight are both
\* the threshold, found eligible
C19_Witness ==
  /\ Evaluated("MatrixForm")
  /\ BothPresent
  /\ pred.form.i = 1 /\ pred.form.j = 0
  /\ pred.form.scaling_factor = Threshold
  /\ ~pred.block_weights.null /\ BlockWeight = Threshold
  /\ pred.result

\* ---- C20
\* C20 as stated: the generic VectorForm predicate returns true only if the
\* element of field i is present and |scaling_factor| > 1e-12; its value
\* does not depend on the block-weight table, and the VectorFormDG
\* predicate returns the same value.
C20_Original ==
  (pred.phase = "done" /\ pred.form.kind \in {"VectorForm", "VectorFormDG"}) =>
    /\ pred.result =>
         /\ pred.state.e[pred.form.i] # "NULL"
         /\ FabsAboveThreshold(pred.form.scaling_factor)
    /\ \A bw \in PredWeights : Overload(pred.form, pred.state, bw) = pred.result
    /\ pred.result =
         Overload([pred.form EXCEPT !.kind = "VectorForm"], pred.state, pred.block_weights)

\* C20 amended: the same with |scaling_factor| not below 1e-12; a scaling
\* factor equal to the threshold is eligible.
C20_VectorFormEligible ==
  (pred.phase = "done" /\ pred.form.kind \in {"VectorForm", "VectorFormDG"}) =>
    /\ pred.result =>
         /\ pred.state.e[pred.form.i] # "NULL"
         /\ ~FabsBelowThreshold(pred.form.scaling_factor)
    /\ (pred.state.e[pred.form.i] # "NULL" /\ pred.form.scaling_factor = Threshold)
       => pred.result
    /\ \A bw \in PredWeights : Overload(pred.form, pred.state, bw) = pred.result
    /\ pred.result =
         Overload([pred.form EXCEPT !.kind = "VectorForm"], pred.state, pred.block_weights)

\* a VectorFormDG of field 0 whose scaling factor is the threshold, found
\* eligible although the table given weighs block (0, 1) with zero
C20_Witness ==
  /\ Evaluated("VectorFormDG")
  /\ pred.form.i = 0
  /\ pred.state.e[0] # "NULL"
  /\ pred.form.scaling_factor = Threshold
  /\ ~pred.block_weights.null
  /\ get_A(pred.block_weights, 0, 1) = Dec(0, 0)
  /\ pred.result

\* ---- C21
\* C21: after every prepare_sparse_structure call that returns and had a
\* non-null vector, the vector has the length ndof computed from the fields
\* passed and its entries are zero (the last call on it is zero() or
\* alloc(ndof)), on the reuse path as on the reallocation path, also when
\* the dof count changed since the previous call.
C21_VectorSized ==
  (IsPrepare /\ call.returned /\ call.rhs # "NULL") =>
    /\ vecs[call.rhs].len = call.ndof
    /\ call.veclog # <<>>
    /\ call.veclog[Len(call.veclog)] \in {Z3("zero"), <<"alloc", call.ndof, 0>>}

\* ---- C22
\* the orders in which the states of s can be handed to a rebuild
Reorderings(s) ==
  {[k \in 1 .. Len(s) |-> s[p[k]]] :
     p \in {f \in [1 .. Len(s) -> 1 .. Len(s)] :
              \A a, b \in 1 .. Len(s) : f[a] = f[b] => a = b}}

\* C22: the set of coordinates a rebuild registers does not depend on the
\* order of the states: every rebuild of the same states in any order that
\* returns registers the set this one registered.
C22_OrderIndependent ==
  (Rebuilt /\ call.returned) =>
    \A q \in Reorderings(call.states) : \A ub \in UBOutcomes :
      \E r \in {Rebuild(call.wf, q, spaces, spaces_size, ub)} :
        ~r.crash => SeqRange(Flatten(r.reg)) = SeqRange(Flatten(call.reg))

\* ---- C23
\* some state of the call lacks the element of field 0 or of a bound field
SomeAbsent ==
  \E k \in 1 .. Len(call.states) :
    \E i \in BoundFields \cup {0} : call.states[k].e[i] = "NULL"

\* the call died on line 97 or line 112 reading an absent element
AbsentDereferenced == call.why \in {"e[0] is NULL", "NeighborSearch on NULL"}

\* C23: a rebuild with DG forms handles a state with an absent element
\* (field 0 included) without dereferencing the absent element.
C23_AbsentElementSafe ==
  (Rebuilt /\ is_DG(call.wf) /\ SomeAbsent) => ~AbsentDereferenced

\* ---- C24
\* C24: in the Newton loop every iteration assembles exactly once before
\* its solve and solves at most once, and the loop breaks on convergence
\* only with it > 1, after at least one solve and one update of coeff_vec,
\* also when the first residual norm was below the tolerance.
C24_NewtonIteration ==
  (newton.pc # "idle") =>
    /\ newton.it_assemblies <= 1 /\ newton.it_solves <= 1
    /\ newton.pc = "solve" => (newton.it_assemblies = 1 /\ newton.it_solves = 0)
    /\ newton.pc \in {"add", "limit", "copy"} =>
         (newton.it_assemblies = 1 /\ newton.it_solves = 1)
    /\ newton.pc = "done" =>
         /\ newton.it > 1
         /\ newton.solves >= 1
         /\ newton.coeff_updates >= 1

\* the loop broke in iteration 2 after a first residual norm below the
\* tolerance had not ended it
C24_Witness ==
  /\ newton.pc = "done"
  /\ newton.first_small
  /\ newton.it = 2
  /\ newton.assemblies = 2
  /\ newton.solves = 1 /\ newton.coeff_updates = 1

\* ---- C25
\* the loop has ended: by the break or by a fatal error
NewtonEnded == newton.pc \in {"done", "fatal"}

\* what holds of the loop at every point: at most NEWTON_MAX_ITER
\* assemblies and solves; it breaks only on a residual norm below the
\* tolerance with it > 1; it dies only on a failed solve or at the
\* iteration limit; a failed solve is followed by no update of coeff_vec
\* and of the space
NewtonBounded ==
  (newton.pc # "idle") =>
    /\ newton.assemblies <= NEWTON_MAX_ITER
    /\ newton.solves <= NEWTON_MAX_ITER
    /\ newton.pc = "done" => (newton.small /\ newton.it > 1)
    /\ newton.pc = "fatal" =>
         \/ newton.msg = "Matrix solver failed." /\ ~newton.solve_ok
         \/ /\ newton.msg = "Newton method did not converge."
            /\ newton.solve_ok
            /\ newton.it = NEWTON_MAX_ITER
    /\ ~newton.solve_ok =>
         /\ newton.pc = "fatal"
         /\ newton.coeff_updates = newton.solves - 1
         /\ newton.space_updates = newton.solves - 1

\* C25: the Newton loop always terminates, by convergence with it > 1, by
\* the fatal error of a failed solve or by the fatal error of the iteration
\* limit; it makes at most NEWTON_MAX_ITER assemblies and solves, and after
\* a failed solve neither coeff_vec nor the space is updated.
C25_NewtonTerminates == <>NewtonEnded /\ []NewtonBounded

\* the loop died at the iteration limit after NEWTON_MAX_ITER assemblies
\* and solves
C25_Witness ==
  /\ newton.pc = "fatal"
  /\ newton.msg = "Newton method did not converge."
  /\ newton.assemblies = NEWTON_MAX_ITER
  /\ newton.solves = NEWTON_MAX_ITER
  /\ newton.coeff_updates = NEWTON_MAX_ITER
  /\ newton.space_updates = NEWTON_MAX_ITER - 1

\* the loop died on a failed solve in iteration 3 with two updates made
C25_WitnessSolverFailed ==
  /\ newton.pc = "fatal"
  /\ newton.msg = "Matrix solver failed."
  /\ newton.it = 3 /\ newton.solves = 3
  /\ newton.coeff_updates = 2 /\ newton.space_updates = 2

====
